---- MODULE Spec2Model ----
(***************************************************************************)
(* Model of nudge's recording core:                                        *)
(*   - MeetingWatcher (src/src/watcher/watcher.py): the polling state      *)
(*     machine, its start-/stop-recording operations and its relay worker; *)
(*   - the manual `start` command (src/src/cli/app.py) in its own process, *)
(*     sharing the lock file and the session table with the watcher;       *)
(*   - AudioCapture (src/src/audio/capture.py): callback, bounded queue,   *)
(*     collection thread, chunk files.                                     *)
(* Spec        is the session lifecycle: the watcher's state machine, the  *)
(*             manual command, the lock file and the session table, with   *)
(*             each owner's capture and relay worker started and stopped.  *)
(* SpecRelay   is one running session (of the watcher or of the manual     *)
(*             command) with the chunks its capture hands to the relay,    *)
(*             up to the end of the owner's stop.                          *)
(* SpecCapture is one capture engine at frame granularity.                 *)
(***************************************************************************)
EXTENDS Integers, Sequences, FiniteSets, TLC

\* ---- bounds of the model ------------------------------------------------
MaxElapsed == 60
MaxSessions == 2
MaxChunks == 2
MaxFrames == 5
MaxListed == 10001
QUEUE_MAXSIZE == 2

\* ---- program constants --------------------------------------------------
POLL_INTERVAL_SECONDS == 5
START_GRACE_SECONDS == 15
STOP_GRACE_SECONDS == 60
sample_rate == 16000
chunk_duration == 30

frames_per_chunk == sample_rate * chunk_duration

\* ---- value spaces -------------------------------------------------------
None == 0
SessionIds == 1..MaxSessions
Owners == {"watcher", "manual"}
Platforms == {"Zoom", "Microsoft Teams"}
MeetingState == [active : {TRUE}, platform : Platforms]
                  \cup {[active |-> FALSE, platform |-> ""]}
PollDelays == {POLL_INTERVAL_SECONDS, 2 * POLL_INTERVAL_SECONDS}
Sentinel == <<None, 0>>
ChunkPath(sid, i) == <<sid, i>>
TranscribeOutcomes == {"text", "empty", "raise"}
StartOutcomes == {"ok", "load_raises", "capture_raises"}
ProcessOutcomes == {"ok", "raise"}
FrameLens == {160000, 320000}

VARIABLES
  \* watcher object; since_entered is time.monotonic() - _state_entered_at
  \* as of the latest clock reading
  running, state, since_entered, last_platform, wpc,
  \* the signal seen by the latest poll
  meeting,
  \* manual command process
  mpc,
  \* per owner: session object, capture, relay
  session, capturing, collecting, chunks_written, callbacks,
  worker, transcription_queue, transcript_offset,
  \* shared storage
  lock, db, next_id, saved,
  \* relay log: the chunk paths handed to engine.transcribe, in order, and
  \* those whose processing raised
  handed, errored,
  \* history
  prev_state, prev_elapsed, active_for, stop_count, process_count,
  \* history: for how long the polls of the current recording have seen the
  \* signal inactive without interruption (-1: not so at the latest poll)
  quiet_for,
  \* capture engine (SpecCapture)
  is_recording, audio_queue, chunk_buffer, chunk_index, files,
  stream_thread, collection_thread, cpc, delivered, dropped, blocks,
  spawned,
  \* the list returned by the latest get_chunk_paths() call
  listing,
  \* history: the frames the audio callback put into the queue, in order,
  \* and the frames written to each chunk file
  accepted, contents,
  \* the threads of an earlier run of the engine that are still alive after
  \* a later start(): their numbers, by kind
  leftover

wvars == <<state, since_entered, last_platform, prev_state, prev_elapsed>>
clockvars == <<meeting, active_for, quiet_for>>
sessvars == <<session, db, next_id, lock>>
capvars == <<capturing, collecting, chunks_written, callbacks>>
relaylog == <<saved, handed, errored>>
relayvars == <<worker, transcription_queue, transcript_offset, relaylog>>
histvars == <<stop_count, process_count>>
enginevars == <<is_recording, audio_queue, chunk_buffer, chunk_index, files,
                stream_thread, collection_thread, cpc, delivered, dropped,
                blocks, spawned, listing, accepted, contents, leftover>>
vars == <<running, wvars, wpc, clockvars, mpc, sessvars, capvars, relayvars, histvars,
          enginevars>>

\* =========================================================================
\* Initial state: a freshly constructed watcher, no manual command running,
\* no lock file, an empty session table; one constructed capture engine.
\* =========================================================================
InitWatcher ==
  /\ running = TRUE
  /\ state = "IDLE"
  /\ since_entered = 0
  /\ last_platform = ""
  /\ wpc = "sleep"
  /\ meeting = [active |-> FALSE, platform |-> ""]
  /\ mpc = "none"
  /\ session = [o \in Owners |-> None]
  /\ capturing = [o \in Owners |-> FALSE]
  /\ collecting = [o \in Owners |-> FALSE]
  /\ chunks_written = [o \in Owners |-> 0]
  /\ callbacks = [o \in Owners |-> {}]
  /\ worker = [o \in Owners |-> "none"]
  /\ transcription_queue = [o \in Owners |-> <<>>]
  /\ transcript_offset = [o \in Owners |-> 0]
  /\ lock = None
  /\ db = [s \in SessionIds |-> "absent"]
  /\ next_id = 1
  /\ saved = {}
  /\ handed = <<>>
  /\ errored = {}
  /\ prev_state = "IDLE"
  /\ prev_elapsed = 0
  /\ active_for = -1
  /\ quiet_for = -1
  /\ stop_count = [s \in SessionIds |-> 0]
  /\ process_count = [s \in SessionIds |-> 0]

InitEngine ==
  /\ is_recording = FALSE
  /\ audio_queue = <<>>
  /\ chunk_buffer = <<>>
  /\ chunk_index = 0
  /\ files = <<>>
  /\ stream_thread = "none"
  /\ collection_thread = "none"
  /\ cpc = "constructed"
  /\ delivered = 0
  /\ blocks = {}
  /\ listing = <<>>
  /\ accepted = <<>>
  /\ contents = <<>>
  /\ leftover = [collection |-> 0, stream |-> 0]
  /\ dropped = 0
  /\ spawned = <<>>

Init == InitWatcher /\ InitEngine

\* =========================================================================
\* Capture engine as its owner sees it: chunks are persisted in index order,
\* each one spawns a daemon thread that runs the registered callback.
\* =========================================================================
\* mutant of SaveChunkOf: every save also starts a callback thread for the
\* first chunk again
SaveChunkOf_CallsBackTwice(o) ==
  /\ chunks_written' = [chunks_written EXCEPT ![o] = @ + 1]
  /\ callbacks' = [callbacks EXCEPT
                     ![o] = @ \cup {ChunkPath(session[o], chunks_written[o]),
                                    ChunkPath(session[o], 0)}]

SaveChunkOf(o) ==
  /\ chunks_written' = [chunks_written EXCEPT ![o] = @ + 1]
  /\ callbacks' = [callbacks EXCEPT
                     ![o] = @ \cup {ChunkPath(session[o], chunks_written[o])}]

\* capture.stop() as its caller sees it.  The join of the collection thread
\* is bounded (5 s): stop() returns with that thread exited, or with it
\* still working through the queue (collecting).
CaptureStop(o) ==
  /\ capturing' = [capturing EXCEPT ![o] = FALSE]
  /\ \E late \in BOOLEAN : collecting' = [collecting EXCEPT ![o] = late]
  /\ UNCHANGED <<chunks_written, callbacks>>

\* _save_chunk, called by the collection thread when the buffer is full or,
\* for the partial buffer, when stop() has sent the sentinel
CaptureSavesChunk(o) ==
  /\ capturing[o] \/ collecting[o]
  /\ session[o] # None
  /\ chunks_written[o] < MaxChunks
  /\ SaveChunkOf(o)
  /\ UNCHANGED <<capturing, collecting, running, wvars, wpc, clockvars, mpc,
                 sessvars, relayvars, histvars, enginevars>>

\* the collection thread that outlived stop() reaches the sentinel and exits
CollectionExits(o) ==
  /\ collecting[o]
  /\ collecting' = [collecting EXCEPT ![o] = FALSE]
  /\ UNCHANGED <<capturing, chunks_written, callbacks, running, wvars, wpc,
                 clockvars, mpc, sessvars, relayvars, histvars, enginevars>>

\* the lambda registered with on_chunk_saved, run on its own daemon thread
ChunkCallback(o) ==
  \E p \in callbacks[o] :
    /\ callbacks' = [callbacks EXCEPT ![o] = @ \ {p}]
    /\ transcription_queue' = [transcription_queue EXCEPT ![o] = Append(@, p)]
    /\ UNCHANGED <<capturing, collecting, chunks_written, worker,
                   transcript_offset, relaylog,
                   running, wvars, wpc, clockvars, mpc, sessvars, histvars,
                   enginevars>>

\* =========================================================================
\* Relay consumers
\* =========================================================================
TranscriptChunk(sid, i, off) ==
  [session_id |-> sid, chunk_index |-> i,
   started_at_offset |-> off, ended_at_offset |-> off + chunk_duration]

\* MeetingWatcher._transcription_worker: one loop iteration.  The offset is
\* advanced by the last statement of the try block.
WatcherWorkerStep(path, outcome) ==
  IF path = Sentinel
    THEN /\ worker' = [worker EXCEPT !["watcher"] = "exited"]
         /\ UNCHANGED <<transcript_offset, relaylog>>
    ELSE /\ UNCHANGED worker
         /\ IF session["watcher"] = None
              THEN UNCHANGED <<transcript_offset, relaylog>>
              ELSE /\ handed' = Append(handed, path)
                   /\ CASE outcome = "text" ->
                          /\ saved' = saved \cup
                               {TranscriptChunk(session["watcher"], path[2],
                                                transcript_offset["watcher"])}
                          /\ transcript_offset' = [transcript_offset EXCEPT
                               !["watcher"] = @ + chunk_duration]
                          /\ UNCHANGED errored
                     [] outcome = "empty" ->
                          /\ UNCHANGED <<saved, errored>>
                          /\ transcript_offset' = [transcript_offset EXCEPT
                               !["watcher"] = @ + chunk_duration]
                     [] outcome = "raise" ->
                          /\ errored' = errored \cup {path}
                          /\ UNCHANGED <<transcript_offset, saved>>

\* mutant of ManualWorkerStep: an exception ends the worker thread
ManualWorkerStep_DiesOnError(path, outcome) ==
  IF path = Sentinel \/ outcome = "raise"
    THEN /\ worker' = [worker EXCEPT !["manual"] = "exited"]
         /\ UNCHANGED <<transcript_offset, relaylog>>
    ELSE /\ UNCHANGED <<worker, errored>>
         /\ handed' = Append(handed, path)
         /\ transcript_offset' = [transcript_offset EXCEPT
              !["manual"] = @ + chunk_duration]
         /\ saved' = IF outcome = "text"
                       THEN saved \cup
                              {TranscriptChunk(session["manual"], path[2],
                                               transcript_offset["manual"])}
                       ELSE saved

\* start.transcription_worker: one loop iteration.  The offset is advanced in
\* the finally clause.
ManualWorkerStep(path, outcome) ==
  IF path = Sentinel
    THEN /\ worker' = [worker EXCEPT !["manual"] = "exited"]
         /\ UNCHANGED <<transcript_offset, relaylog>>
    ELSE /\ UNCHANGED worker
         /\ handed' = Append(handed, path)
         /\ transcript_offset' = [transcript_offset EXCEPT
              !["manual"] = @ + chunk_duration]
         /\ saved' = IF outcome = "text"
                       THEN saved \cup
                              {TranscriptChunk(session["manual"], path[2],
                                               transcript_offset["manual"])}
                       ELSE saved
         /\ errored' = IF outcome = "raise" THEN errored \cup {path}
                                            ELSE errored

\* mutant of RelayStep: the loop goes on after the terminal marker
RelayStep_KeepsDequeuing(o) ==
  /\ worker[o] \in {"alive", "exited"}
  /\ transcription_queue[o] # <<>>
  /\ \E outcome \in TranscribeOutcomes :
       IF o = "watcher"
         THEN WatcherWorkerStep(Head(transcription_queue[o]), outcome)
         ELSE ManualWorkerStep(Head(transcription_queue[o]), outcome)
  /\ transcription_queue' = [transcription_queue EXCEPT ![o] = Tail(@)]
  /\ UNCHANGED <<running, wvars, wpc, clockvars, mpc, sessvars, capvars,
                 histvars, enginevars>>

RelayStep(o) ==
  /\ worker[o] = "alive"
  /\ transcription_queue[o] # <<>>
  /\ \E outcome \in TranscribeOutcomes :
       IF o = "watcher"
         THEN WatcherWorkerStep(Head(transcription_queue[o]), outcome)
         ELSE ManualWorkerStep(Head(transcription_queue[o]), outcome)
  /\ transcription_queue' = [transcription_queue EXCEPT ![o] = Tail(@)]
  /\ UNCHANGED <<running, wvars, wpc, clockvars, mpc, sessvars, capvars,
                 histvars, enginevars>>

\* =========================================================================
\* MeetingWatcher
\* =========================================================================
\* _tick reads `elapsed` in two branches only: against START_GRACE_SECONDS
\* in CONFIRMING and against STOP_GRACE_SECONDS in COOLING_DOWN.  The time
\* spent in a state is therefore kept up to the value it is compared with
\* there (MaxElapsed in COOLING_DOWN), and not at all in the other states.
Min(a, b) == IF a < b THEN a ELSE b
Horizon(s) ==
  CASE s = "CONFIRMING" -> START_GRACE_SECONDS
    [] s = "COOLING_DOWN" -> MaxElapsed
    [] OTHER -> 0
Advance(t, d) == Min(t + d, Horizon(state))

\* _enter_state, called when `elapsed` has passed in the state left;
\* prev_state / prev_elapsed remember that state and how long it lasted
\* (up to START_GRACE_SECONDS).
EnterState(s, elapsed) ==
  /\ state' = s
  /\ since_entered' = 0
  /\ prev_state' = state
  /\ prev_elapsed' = Min(elapsed, START_GRACE_SECONDS)

\* no _enter_state: the state is kept and has now lasted `elapsed`
KeepState(elapsed) ==
  /\ since_entered' = elapsed
  /\ UNCHANGED <<state, prev_state, prev_elapsed>>

\* mutants of TickIdle: recording starts straight from IDLE; the platform
\* is not recorded
TickIdle_StartsAtOnce(m, elapsed) ==
  /\ IF m.active
       THEN /\ last_platform' = m.platform
            /\ KeepState(elapsed)
            /\ wpc' = "start_create"
       ELSE /\ UNCHANGED <<last_platform, wpc>>
            /\ KeepState(elapsed)
  /\ UNCHANGED <<sessvars, capvars, relayvars, histvars>>

TickIdle_NoPlatform(m, elapsed) ==
  /\ IF m.active
       THEN EnterState("CONFIRMING", elapsed)
       ELSE KeepState(elapsed)
  /\ UNCHANGED <<last_platform, wpc, sessvars, capvars, relayvars, histvars>>

\* _tick, state IDLE
TickIdle(m, elapsed) ==
  /\ IF m.active
       THEN /\ last_platform' = m.platform
            /\ EnterState("CONFIRMING", elapsed)
       ELSE /\ UNCHANGED last_platform
            /\ KeepState(elapsed)
  /\ UNCHANGED <<wpc, sessvars, capvars, relayvars, histvars>>

\* mutant of TickConfirming: the grace is tested before the signal
TickConfirming_GraceFirst(m, elapsed) ==
  /\ UNCHANGED <<last_platform, sessvars, capvars, relayvars, histvars>>
  /\ IF elapsed >= START_GRACE_SECONDS
       THEN IF lock # None
              THEN EnterState("RECORDING", elapsed) /\ UNCHANGED wpc
              ELSE KeepState(elapsed) /\ wpc' = "start_create"
       ELSE IF ~m.active
              THEN EnterState("IDLE", elapsed) /\ UNCHANGED wpc
              ELSE KeepState(elapsed) /\ UNCHANGED wpc

\* _tick, state CONFIRMING.  _start_recording returns at once when the lock
\* file exists, and _tick then enters RECORDING all the same; otherwise the
\* rest of _start_recording runs in the steps below.
TickConfirming(m, elapsed) ==
  /\ UNCHANGED <<last_platform, sessvars, capvars, relayvars, histvars>>
  /\ IF ~m.active
       THEN EnterState("IDLE", elapsed) /\ UNCHANGED wpc
       ELSE IF elapsed >= START_GRACE_SECONDS
              THEN IF lock # None
                     THEN EnterState("RECORDING", elapsed) /\ UNCHANGED wpc
                     ELSE KeepState(elapsed) /\ wpc' = "start_create"
              ELSE KeepState(elapsed) /\ UNCHANGED wpc

\* _tick, state RECORDING
TickRecording(m, elapsed) ==
  /\ IF ~m.active
       THEN EnterState("COOLING_DOWN", elapsed)
       ELSE KeepState(elapsed)
  /\ UNCHANGED <<last_platform, wpc, sessvars, capvars, relayvars, histvars>>

\* mutant of StopRecordingBegin: the terminal marker is enqueued with capture
\* left running
StopRecordingBegin_KeepsCapture(next_pc) ==
  /\ UNCHANGED capvars
  /\ transcription_queue' = [transcription_queue EXCEPT
       !["watcher"] = Append(@, Sentinel)]
  /\ stop_count' = [s \in SessionIds |->
       IF s = session["watcher"] THEN stop_count[s] + 1 ELSE stop_count[s]]
  /\ wpc' = next_pc

\* _stop_recording up to the join: capture.stop(), the terminal marker.
StopRecordingBegin(next_pc) ==
  /\ IF capturing["watcher"]
       THEN CaptureStop("watcher")
       ELSE UNCHANGED capvars
  /\ transcription_queue' = [transcription_queue EXCEPT
       !["watcher"] = Append(@, Sentinel)]
  /\ stop_count' = [s \in SessionIds |->
       IF s = session["watcher"] THEN stop_count[s] + 1 ELSE stop_count[s]]
  /\ wpc' = next_pc

\* mutants of TickCoolingDown: a rejoin restarts the relay; the grace stop
\* goes to post-processing without _stop_recording
TickCoolingDown_RestartsRelay(m, elapsed) ==
  /\ UNCHANGED <<last_platform, sessvars, worker, relaylog, process_count>>
  /\ IF m.active
       THEN /\ EnterState("RECORDING", elapsed)
            /\ transcript_offset' = [transcript_offset EXCEPT !["watcher"] = 0]
            /\ transcription_queue' = [transcription_queue EXCEPT
                 !["watcher"] = <<>>]
            /\ UNCHANGED <<wpc, capvars, stop_count>>
       ELSE IF elapsed >= STOP_GRACE_SECONDS
              THEN /\ StopRecordingBegin("stop_join")
                   /\ KeepState(elapsed)
                   /\ UNCHANGED transcript_offset
              ELSE /\ KeepState(elapsed)
                   /\ UNCHANGED <<wpc, capvars, transcription_queue,
                                  transcript_offset, stop_count>>

TickCoolingDown_NoStop(m, elapsed) ==
  /\ UNCHANGED <<last_platform, sessvars, worker, transcript_offset, relaylog,
                 process_count, capvars, transcription_queue, stop_count>>
  /\ IF m.active
       THEN EnterState("RECORDING", elapsed) /\ UNCHANGED wpc
       ELSE IF elapsed >= STOP_GRACE_SECONDS
              THEN EnterState("PROCESSING", elapsed) /\ wpc' = "process"
              ELSE KeepState(elapsed) /\ UNCHANGED wpc

\* mutant of TickCoolingDown: the grace period is tested before the signal
TickCoolingDown_GraceFirst(m, elapsed) ==
  /\ UNCHANGED <<last_platform, sessvars, worker, transcript_offset, relaylog,
                 process_count>>
  /\ IF elapsed >= STOP_GRACE_SECONDS
       THEN StopRecordingBegin("stop_join") /\ KeepState(elapsed)
       ELSE IF m.active
              THEN /\ EnterState("RECORDING", elapsed)
                   /\ UNCHANGED <<wpc, capvars, transcription_queue, stop_count>>
              ELSE /\ KeepState(elapsed)
                   /\ UNCHANGED <<wpc, capvars, transcription_queue, stop_count>>

\* _tick, state COOLING_DOWN
TickCoolingDown(m, elapsed) ==
  /\ UNCHANGED <<last_platform, sessvars, worker, transcript_offset, relaylog,
                 process_count>>
  /\ IF m.active
       THEN /\ EnterState("RECORDING", elapsed)
            /\ UNCHANGED <<wpc, capvars, transcription_queue, stop_count>>
       ELSE IF elapsed >= STOP_GRACE_SECONDS
              THEN StopRecordingBegin("stop_join") /\ KeepState(elapsed)
              ELSE /\ KeepState(elapsed)
                   /\ UNCHANGED <<wpc, capvars, transcription_queue, stop_count>>

\* One iteration of run(): sleep, detect_meeting, _tick.
Poll ==
  /\ running
  /\ wpc = "sleep"
  /\ \E d \in PollDelays, m \in MeetingState :
       /\ meeting' = m
       /\ active_for' = IF ~m.active THEN -1
                        ELSE IF active_for = -1 THEN 0
                        ELSE Min(active_for + d, START_GRACE_SECONDS)
       /\ quiet_for' = IF m.active \/ state \notin {"RECORDING", "COOLING_DOWN"}
                         THEN -1
                       ELSE IF quiet_for = -1 THEN 0
                       ELSE Min(quiet_for + d, STOP_GRACE_SECONDS)
       /\ LET elapsed == Advance(since_entered, d)
          IN  CASE state = "IDLE" -> TickIdle(m, elapsed)
                [] state = "CONFIRMING" -> TickConfirming(m, elapsed)
                [] state = "RECORDING" -> TickRecording(m, elapsed)
                [] state = "COOLING_DOWN" -> TickCoolingDown(m, elapsed)
                [] OTHER -> /\ KeepState(elapsed)
                            /\ UNCHANGED <<last_platform, wpc, sessvars,
                                           capvars, relayvars, histvars>>
  /\ UNCHANGED <<running, mpc, enginevars>>

\* stop(), the SIGTERM / SIGINT handler, arriving while run() sleeps
WatcherStop ==
  /\ running
  /\ wpc = "sleep"
  /\ running' = FALSE
  /\ IF state = "RECORDING"
       THEN StopRecordingBegin("sig_join")
       ELSE UNCHANGED <<wpc, capvars, transcription_queue, stop_count>>
  /\ UNCHANGED <<wvars, clockvars, mpc, sessvars, worker, transcript_offset,
                 relaylog, process_count, enginevars>>

\* _start_recording, lines 167-184: the Session and its row.  A collection
\* thread of the previous capture is not followed into the new session.
WatcherCreateSession ==
  /\ wpc = "start_create"
  /\ next_id <= MaxSessions
  /\ session' = [session EXCEPT !["watcher"] = next_id]
  /\ db' = [db EXCEPT ![next_id] = "recording"]
  /\ next_id' = next_id + 1
  /\ wpc' = "start_lock"
  /\ collecting' = [collecting EXCEPT !["watcher"] = FALSE]
  /\ UNCHANGED <<lock, running, wvars, clockvars, mpc, capturing,
                 chunks_written, callbacks, relayvars, histvars, enginevars>>

\* _start_recording, lines 186-206, then _enter_state(RECORDING).  An
\* exception (model load, capture construction) leaves _tick at that point.
StartRecordingRest(outcome) ==
  /\ lock' = session["watcher"]
  /\ wpc' = "sleep"
  /\ UNCHANGED <<session, db, next_id, relaylog, callbacks, collecting,
                 last_platform, histvars>>
  /\ CASE outcome = "load_raises" ->
            /\ UNCHANGED <<state, since_entered, prev_state, prev_elapsed>>
            /\ UNCHANGED <<capturing, chunks_written, worker,
                           transcription_queue, transcript_offset>>
       [] outcome = "capture_raises" ->
            /\ UNCHANGED <<state, since_entered, prev_state, prev_elapsed>>
            /\ transcript_offset' = [transcript_offset EXCEPT !["watcher"] = 0]
            /\ transcription_queue' = [transcription_queue EXCEPT
                 !["watcher"] = <<>>]
            /\ worker' = [worker EXCEPT !["watcher"] = "alive"]
            /\ UNCHANGED <<capturing, chunks_written>>
       [] outcome = "ok" ->
            /\ transcript_offset' = [transcript_offset EXCEPT !["watcher"] = 0]
            /\ transcription_queue' = [transcription_queue EXCEPT
                 !["watcher"] = <<>>]
            /\ worker' = [worker EXCEPT !["watcher"] = "alive"]
            /\ capturing' = [capturing EXCEPT !["watcher"] = TRUE]
            /\ chunks_written' = [chunks_written EXCEPT !["watcher"] = 0]
            /\ EnterState("RECORDING", since_entered)

WatcherStartRecording ==
  /\ wpc = "start_lock"
  /\ UNCHANGED <<running, clockvars, mpc, enginevars>>
  /\ \E outcome \in StartOutcomes : StartRecordingRest(outcome)

\* _stop_recording without line 229: the lock marker is left behind.
WatcherStopJoined_KeepsLock ==
  /\ wpc \in {"stop_join", "sig_join"}
  /\ worker' = [worker EXCEPT !["watcher"] =
                  IF @ = "alive" THEN "alive" ELSE "none"]
  /\ db' = IF session["watcher"] # None
             THEN [db EXCEPT ![session["watcher"]] = "stopped"]
             ELSE db
  /\ UNCHANGED <<lock, session, next_id, last_platform, running, clockvars,
                 mpc, capvars, transcription_queue, transcript_offset,
                 relaylog, histvars, enginevars>>
  /\ IF wpc = "stop_join"
       THEN EnterState("PROCESSING", since_entered) /\ wpc' = "process"
       ELSE /\ UNCHANGED <<state, since_entered, prev_state, prev_elapsed>>
            /\ wpc' = "sleep"

\* _stop_recording from the join on; when called from _tick,
\* _enter_state(PROCESSING) follows.  join(timeout=120) returns when the
\* worker has exited or when the time is up; in the second case the thread
\* keeps running on the watcher's attributes.
WatcherStopJoined ==
  /\ wpc \in {"stop_join", "sig_join"}
  /\ worker' = [worker EXCEPT !["watcher"] =
                  IF @ = "alive" THEN "alive" ELSE "none"]
  /\ db' = IF session["watcher"] # None
             THEN [db EXCEPT ![session["watcher"]] = "stopped"]
             ELSE db
  /\ lock' = None
  /\ UNCHANGED <<session, next_id, last_platform, running, clockvars, mpc,
                 capvars, transcription_queue, transcript_offset, relaylog,
                 histvars, enginevars>>
  /\ IF wpc = "stop_join"
       THEN EnterState("PROCESSING", since_entered) /\ wpc' = "process"
       ELSE /\ UNCHANGED <<state, since_entered, prev_state, prev_elapsed>>
            /\ wpc' = "sleep"

\* The post-processing exception escapes the tick: no error status, and the
\* _enter_state(IDLE) that follows the call is skipped.
ProcessSession_Propagates(outcome) ==
  /\ IF session["watcher"] = None
       THEN UNCHANGED <<db, process_count>>
       ELSE /\ process_count' = [process_count EXCEPT
                 ![session["watcher"]] = @ + 1]
            /\ db' = [db EXCEPT ![session["watcher"]] =
                 IF outcome = "ok" THEN "complete" ELSE @]
  /\ IF outcome = "ok"
       THEN /\ session' = [session EXCEPT !["watcher"] = None]
            /\ EnterState("IDLE", since_entered)
       ELSE UNCHANGED <<session, state, since_entered, prev_state,
                        prev_elapsed>>
  /\ wpc' = "sleep"

\* _process_session, then _enter_state(IDLE)
ProcessSession(outcome) ==
  /\ IF session["watcher"] = None
       THEN UNCHANGED <<db, process_count>>
       ELSE /\ process_count' = [process_count EXCEPT
                 ![session["watcher"]] = @ + 1]
            /\ db' = [db EXCEPT ![session["watcher"]] =
                 IF outcome = "ok" THEN "complete" ELSE "error"]
  /\ session' = [session EXCEPT !["watcher"] = None]
  /\ EnterState("IDLE", since_entered)
  /\ wpc' = "sleep"

WatcherProcess ==
  /\ wpc = "process"
  /\ UNCHANGED <<lock, next_id, last_platform, running, clockvars, mpc,
                 capvars, relayvars, stop_count, enginevars>>
  /\ \E outcome \in ProcessOutcomes : ProcessSession(outcome)

\* _process_session, lines 239-244, when the storage is failing: the
\* post-processing call raises, and so does update_session_status(ERROR)
\* inside the except clause.  That second exception leaves _process_session
\* before line 246 and _tick before _enter_state(IDLE); run() catches and
\* logs it (lines 102-105) and sleeps.
ProcessSessionMarkRaises ==
  /\ wpc = "process"
  /\ session["watcher"] # None
  /\ process_count' = [process_count EXCEPT ![session["watcher"]] = @ + 1]
  /\ wpc' = "sleep"
  /\ UNCHANGED <<state, since_entered, prev_state, prev_elapsed, session, db,
                 lock, next_id, last_platform, running, clockvars, mpc,
                 capvars, relayvars, stop_count, enginevars>>

\* =========================================================================
\* Manual `start` command (one process per invocation)
\* =========================================================================
\* pre-flight lock check, lines 96-101: exit(1) when the lock file exists
ManualCheckLock ==
  /\ mpc = "none"
  /\ mpc' = IF lock # None THEN "none" ELSE "checked"
  /\ UNCHANGED <<running, wvars, wpc, clockvars, sessvars, capvars, relayvars,
                 histvars, enginevars>>

\* lines 129-139: the Session and its row
ManualCreateSession ==
  /\ mpc = "checked"
  /\ next_id <= MaxSessions
  /\ session' = [session EXCEPT !["manual"] = next_id]
  /\ db' = [db EXCEPT ![next_id] = "recording"]
  /\ next_id' = next_id + 1
  /\ mpc' = "created"
  /\ UNCHANGED <<lock, running, wvars, wpc, clockvars, capvars, relayvars,
                 histvars, enginevars>>

\* lines 141-224: lock, model load, worker, capture.  An exception from the
\* model load or the capture construction ends the process (its threads and
\* objects with it); the lock file and the session row stay.
ManualStartRest(outcome) ==
  /\ lock' = session["manual"]
  /\ UNCHANGED <<db, next_id, relaylog, callbacks, transcription_queue,
                 transcript_offset, chunks_written, collecting>>
  /\ IF outcome = "ok"
       THEN /\ worker' = [worker EXCEPT !["manual"] = "alive"]
            /\ capturing' = [capturing EXCEPT !["manual"] = TRUE]
            /\ mpc' = "recording"
            /\ UNCHANGED session
       ELSE /\ session' = [session EXCEPT !["manual"] = None]
            /\ mpc' = "none"
            /\ UNCHANGED <<worker, capturing>>

ManualStart ==
  /\ mpc = "created"
  /\ \E outcome \in StartOutcomes : ManualStartRest(outcome)
  /\ UNCHANGED <<running, wvars, wpc, clockvars, histvars, enginevars>>

\* _shutdown up to the join (Ctrl+C or SIGTERM)
ManualShutdown ==
  /\ mpc = "recording"
  /\ CaptureStop("manual")
  /\ transcription_queue' = [transcription_queue EXCEPT
       !["manual"] = Append(@, Sentinel)]
  /\ mpc' = "join"
  /\ UNCHANGED <<worker, transcript_offset, relaylog, running, wvars, wpc,
                 clockvars, sessvars, histvars, enginevars>>

\* _shutdown from the join on (join(timeout=120) returns when the worker
\* has exited or when the time is up): stopped, unlock, _process_session,
\* exit.  The process ends here, whether _process_session returns or raises,
\* and its daemon threads with it.
ManualShutdownRest(outcome) ==
  /\ db' = [db EXCEPT ![session["manual"]] =
              IF outcome = "ok" THEN "complete" ELSE "processing"]
  /\ lock' = None
  /\ session' = [session EXCEPT !["manual"] = None]
  /\ worker' = [worker EXCEPT !["manual"] = "none"]
  /\ transcription_queue' = [transcription_queue EXCEPT !["manual"] = <<>>]
  /\ transcript_offset' = [transcript_offset EXCEPT !["manual"] = 0]
  /\ chunks_written' = [chunks_written EXCEPT !["manual"] = 0]
  /\ callbacks' = [callbacks EXCEPT !["manual"] = {}]
  /\ collecting' = [collecting EXCEPT !["manual"] = FALSE]
  /\ mpc' = "none"

ManualJoined ==
  /\ mpc = "join"
  /\ \E outcome \in ProcessOutcomes : ManualShutdownRest(outcome)
  /\ UNCHANGED <<next_id, relaylog, capturing, running, wvars, wpc, clockvars,
                 histvars, enginevars>>

\* =========================================================================
Next ==
  \/ Poll
  \/ WatcherStop
  \/ WatcherCreateSession
  \/ WatcherStartRecording
  \/ WatcherStopJoined
  \/ WatcherProcess
  \/ ManualCheckLock
  \/ ManualCreateSession
  \/ ManualStart
  \/ ManualShutdown
  \/ ManualJoined
  \/ \E o \in Owners : RelayStep(o)
  \/ \E o \in Owners : CollectionExits(o)

Spec == Init /\ [][Next]_vars

\* The same program with a storage that can fail while a failed
\* post-processing run is being recorded.
NextStorage ==
  \/ Next
  \/ ProcessSessionMarkRaises

SpecStorage == Init /\ [][NextStorage]_vars

\* -------------------------------------------------------------------------
\* One running session: the state right after its owner's start-recording
\* succeeded (session 1, lock written, worker and capture started).
InitRelay ==
  \E o \in Owners :
    /\ running = TRUE
    /\ state = IF o = "watcher" THEN "RECORDING" ELSE "IDLE"
    /\ since_entered = 0
    /\ last_platform = IF o = "watcher" THEN "Zoom" ELSE ""
    /\ wpc = "sleep"
    /\ meeting = IF o = "watcher" THEN [active |-> TRUE, platform |-> "Zoom"]
                 ELSE [active |-> FALSE, platform |-> ""]
    /\ mpc = IF o = "manual" THEN "recording" ELSE "none"
    /\ session = [x \in Owners |-> IF x = o THEN 1 ELSE None]
    /\ capturing = [x \in Owners |-> x = o]
    /\ collecting = [x \in Owners |-> FALSE]
    /\ chunks_written = [x \in Owners |-> 0]
    /\ callbacks = [x \in Owners |-> {}]
    /\ worker = [x \in Owners |-> IF x = o THEN "alive" ELSE "none"]
    /\ transcription_queue = [x \in Owners |-> <<>>]
    /\ transcript_offset = [x \in Owners |-> 0]
    /\ lock = 1
    /\ db = [s \in SessionIds |-> IF s = 1 THEN "recording" ELSE "absent"]
    /\ next_id = 2
    /\ saved = {}
    /\ handed = <<>>
    /\ errored = {}
    /\ prev_state = IF o = "watcher" THEN "CONFIRMING" ELSE "IDLE"
    /\ prev_elapsed = IF o = "watcher" THEN START_GRACE_SECONDS ELSE 0
    /\ active_for = IF o = "watcher" THEN START_GRACE_SECONDS ELSE -1
    /\ quiet_for = -1
    /\ stop_count = [s \in SessionIds |-> 0]
    /\ process_count = [s \in SessionIds |-> 0]
    /\ InitEngine

\* No further session is created: the steps that create one are left out.
NextRelay ==
  \/ \E o \in Owners : CaptureSavesChunk(o)
  \/ \E o \in Owners : ChunkCallback(o)
  \/ \E o \in Owners : RelayStep(o)
  \/ \E o \in Owners : CollectionExits(o)
  \/ Poll
  \/ WatcherStop
  \/ WatcherStopJoined
  \/ WatcherProcess
  \/ ManualShutdown
  \/ ManualJoined

SpecRelay == InitRelay /\ [][NextRelay]_vars

\* From one watcher session to the next.  The first session has just been
\* stopped with its relay behind: _stop_recording has returned after the
\* bounded join, the worker is alive and the queue still holds the last
\* chunk path and the terminal marker.
InitHandover ==
  /\ running = TRUE
  /\ state = "PROCESSING"
  /\ since_entered = 0
  /\ last_platform = "Zoom"
  /\ wpc = "process"
  /\ meeting = [active |-> FALSE, platform |-> ""]
  /\ mpc = "none"
  /\ session = [x \in Owners |-> IF x = "watcher" THEN 1 ELSE None]
  /\ capturing = [x \in Owners |-> FALSE]
  /\ collecting = [x \in Owners |-> FALSE]
  /\ chunks_written = [x \in Owners |-> IF x = "watcher" THEN 1 ELSE 0]
  /\ callbacks = [x \in Owners |-> {}]
  /\ worker = [x \in Owners |-> IF x = "watcher" THEN "alive" ELSE "none"]
  /\ transcription_queue =
       [x \in Owners |-> IF x = "watcher" THEN <<ChunkPath(1, 0), Sentinel>>
                                           ELSE <<>>]
  /\ transcript_offset = [x \in Owners |-> 0]
  /\ lock = None
  /\ db = [s \in SessionIds |-> IF s = 1 THEN "stopped" ELSE "absent"]
  /\ next_id = 2
  /\ saved = {}
  /\ handed = <<>>
  /\ errored = {}
  /\ prev_state = "COOLING_DOWN"
  /\ prev_elapsed = START_GRACE_SECONDS
  /\ active_for = -1
  /\ quiet_for = STOP_GRACE_SECONDS
  /\ stop_count = [s \in SessionIds |-> IF s = 1 THEN 1 ELSE 0]
  /\ process_count = [s \in SessionIds |-> 0]
  /\ InitEngine

NextHandover ==
  \/ CaptureSavesChunk("watcher")
  \/ ChunkCallback("watcher")
  \/ RelayStep("watcher")
  \/ CollectionExits("watcher")
  \/ Poll
  \/ WatcherCreateSession
  \/ WatcherStartRecording
  \/ WatcherStopJoined
  \/ WatcherProcess

SpecHandover == InitHandover /\ [][NextHandover]_vars

\* =========================================================================
\* AudioCapture: one engine, used the way its owners use it (constructed,
\* on_chunk_saved registered, start() once, stop() once)
\* =========================================================================
\* what the steps of the newest run's threads and of its owner leave alone:
\* the MeetingWatcher / manual-command variables and the threads of earlier
\* runs
lifevars == <<running, wvars, wpc, clockvars, mpc, sessvars, capvars,
              relayvars, histvars, leftover>>

RECURSIVE SumSeq(_)
SumSeq(q) == IF q = <<>> THEN 0 ELSE Head(q) + SumSeq(Tail(q))

\* the sentinel None in the audio queue; frames are represented by their
\* number of samples
NoFrame == 0

\* mutant of SaveChunk: the index is advanced before the file is named
SaveChunk_SkipsIndex(buf) ==
  IF buf = <<>>
    THEN UNCHANGED <<chunk_buffer, chunk_index, files, contents, spawned>>
    ELSE /\ files' = [i \in DOMAIN files \cup {chunk_index + 1} |->
                        IF i = chunk_index + 1 THEN SumSeq(buf) ELSE files[i]]
         /\ contents' = [i \in DOMAIN files \cup {chunk_index + 1} |->
                           IF i = chunk_index + 1 THEN buf ELSE contents[i]]
         /\ chunk_buffer' = <<>>
         /\ chunk_index' = chunk_index + 1
         /\ spawned' = Append(spawned, chunk_index + 1)

\* _save_chunk with the buffer holding `buf`: write chunk_<index>.wav, reset
\* the buffer, advance the index, spawn the callback thread.  files maps
\* the index of each chunk file on disk to its number of samples, contents
\* to the frames written into it.
SaveChunk(buf) ==
  IF buf = <<>>
    THEN UNCHANGED <<chunk_buffer, chunk_index, files, contents, spawned>>
    ELSE /\ files' = [i \in DOMAIN files \cup {chunk_index} |->
                        IF i = chunk_index THEN SumSeq(buf) ELSE files[i]]
         /\ contents' = [i \in DOMAIN files \cup {chunk_index} |->
                           IF i = chunk_index THEN buf ELSE contents[i]]
         /\ chunk_buffer' = <<>>
         /\ chunk_index' = chunk_index + 1
         /\ spawned' = Append(spawned, chunk_index)

\* start()
CaptureStart ==
  /\ cpc = "constructed"
  /\ ~is_recording
  /\ is_recording' = TRUE
  /\ chunk_index' = 0
  /\ chunk_buffer' = <<>>
  /\ collection_thread' = "running"
  /\ stream_thread' = "streaming"
  /\ cpc' = "started"
  /\ UNCHANGED <<audio_queue, files, contents, delivered, dropped, blocks, listing, accepted, spawned, lifevars>>

\* mutant of AudioCallback: a full queue gives up its oldest frame
AudioCallback_DropsOldest(frame) ==
  /\ stream_thread = "streaming"
  /\ delivered < MaxFrames
  /\ ~(cpc = "stop_put" /\ Len(audio_queue) < QUEUE_MAXSIZE)
  /\ delivered' = delivered + 1
  /\ blocks' = blocks \cup {frame}
  /\ accepted' = Append(accepted, frame)
  /\ IF Len(audio_queue) < QUEUE_MAXSIZE
       THEN audio_queue' = Append(audio_queue, frame) /\ UNCHANGED dropped
       ELSE /\ dropped' = dropped + 1
            /\ audio_queue' = Append(Tail(audio_queue), frame)
  /\ UNCHANGED <<is_recording, chunk_buffer, chunk_index, files, contents, stream_thread,
                 collection_thread, cpc, spawned, listing, lifevars>>

\* _audio_callback: put_nowait, the frame is dropped when the queue is full.
\* delivered counts the calls and blocks collects the block sizes seen.
\* Blocks arrive one block duration apart, while stop() goes from line 94 to
\* the put of line 97 at once: no block arrives between the two unless the
\* put is waiting on a full queue.
AudioCallback(frame) ==
  /\ stream_thread = "streaming"
  /\ delivered < MaxFrames
  /\ ~(cpc = "stop_put" /\ Len(audio_queue) < QUEUE_MAXSIZE)
  /\ delivered' = delivered + 1
  /\ blocks' = blocks \cup {frame}
  /\ IF Len(audio_queue) < QUEUE_MAXSIZE
       THEN /\ audio_queue' = Append(audio_queue, frame)
            /\ accepted' = Append(accepted, frame)
            /\ UNCHANGED dropped
       ELSE /\ dropped' = dropped + 1
            /\ UNCHANGED <<audio_queue, accepted>>
  /\ UNCHANGED <<is_recording, chunk_buffer, chunk_index, files, contents, stream_thread,
                 collection_thread, cpc, spawned, listing, lifevars>>

\* mutant of StreamFails: the stream thread ends on the failure without
\* clearing _is_recording
StreamFails_KeepsFlag ==
  /\ stream_thread = "streaming"
  /\ is_recording
  /\ stream_thread' = "exited"
  /\ UNCHANGED <<is_recording, audio_queue, chunk_buffer, chunk_index, files, contents,
                 collection_thread, cpc, delivered, dropped, blocks, listing, accepted, spawned,
                 lifevars>>

\* _stream_loop: the stream fails (except branch) or the loop sees
\* _is_recording False and leaves the stream context
StreamFails ==
  /\ stream_thread = "streaming"
  /\ is_recording
  /\ is_recording' = FALSE
  /\ stream_thread' = "exited"
  /\ UNCHANGED <<audio_queue, chunk_buffer, chunk_index, files, contents,
                 collection_thread, cpc, delivered, dropped, blocks, listing, accepted, spawned, lifevars>>

StreamLoopExits ==
  /\ stream_thread = "streaming"
  /\ ~is_recording
  /\ stream_thread' = "exited"
  /\ UNCHANGED <<is_recording, audio_queue, chunk_buffer, chunk_index, files, contents,
                 collection_thread, cpc, delivered, dropped, blocks, listing, accepted, spawned, lifevars>>

\* mutant of CollectionGet: the collection thread dies at its first read
\* after a block was dropped
CollectionGet_StopsAfterDrop ==
  /\ collection_thread = "running"
  /\ audio_queue # <<>>
  /\ IF dropped > 0
       THEN /\ collection_thread' = "exited"
            /\ UNCHANGED <<audio_queue, chunk_buffer, chunk_index, files, contents,
                           spawned>>
       ELSE /\ audio_queue' = Tail(audio_queue)
            /\ IF Head(audio_queue) = NoFrame
                 THEN /\ SaveChunk(chunk_buffer)
                      /\ collection_thread' = "exited"
                 ELSE /\ UNCHANGED collection_thread
                      /\ LET buf == Append(chunk_buffer, Head(audio_queue))
                         IN  IF SumSeq(buf) >= frames_per_chunk
                               THEN SaveChunk(buf)
                               ELSE /\ chunk_buffer' = buf
                                    /\ UNCHANGED <<chunk_index, files, contents, spawned>>
  /\ UNCHANGED <<is_recording, stream_thread, cpc, delivered, dropped, blocks, listing, accepted,
                 lifevars>>

\* _collection_loop, one iteration with a frame or the sentinel dequeued
CollectionGet ==
  /\ collection_thread = "running"
  /\ audio_queue # <<>>
  /\ audio_queue' = Tail(audio_queue)
  /\ IF Head(audio_queue) = NoFrame
       THEN /\ SaveChunk(chunk_buffer)
            /\ collection_thread' = "exited"
       ELSE /\ UNCHANGED collection_thread
            /\ LET buf == Append(chunk_buffer, Head(audio_queue))
               IN  IF SumSeq(buf) >= frames_per_chunk
                     THEN SaveChunk(buf)
                     ELSE /\ chunk_buffer' = buf
                          /\ UNCHANGED <<chunk_index, files, contents, spawned>>
  /\ UNCHANGED <<is_recording, stream_thread, cpc, delivered, dropped, blocks, listing, accepted, lifevars>>

\* _collection_loop, one iteration whose get() timed out on an empty queue
CollectionTimeout ==
  /\ collection_thread = "running"
  /\ audio_queue = <<>>
  /\ collection_thread' = IF ~is_recording THEN "exited" ELSE "running"
  /\ UNCHANGED <<is_recording, audio_queue, chunk_buffer, chunk_index, files, contents,
                 stream_thread, cpc, delivered, dropped, blocks, listing, accepted, spawned, lifevars>>

\* stop(): the flag, the blocking put of the sentinel, the two timed joins
CaptureStopFlag ==
  /\ cpc \in {"started", "start_raised"}
  /\ is_recording' = FALSE
  /\ cpc' = "stop_put"
  /\ UNCHANGED <<audio_queue, chunk_buffer, chunk_index, files, contents, stream_thread,
                 collection_thread, delivered, dropped, blocks, listing, accepted, spawned, lifevars>>

CaptureStopPut ==
  /\ cpc = "stop_put"
  /\ Len(audio_queue) < QUEUE_MAXSIZE
  /\ audio_queue' = Append(audio_queue, NoFrame)
  /\ cpc' = "stop_join"
  /\ UNCHANGED <<is_recording, chunk_buffer, chunk_index, files, contents, stream_thread,
                 collection_thread, delivered, dropped, blocks, listing, accepted, spawned, lifevars>>

CaptureStopJoin ==
  /\ cpc = "stop_join"
  /\ cpc' = IF stream_thread # "streaming" /\ collection_thread # "running"
              THEN "stopped" ELSE "stopped_timeout"
  /\ UNCHANGED <<is_recording, audio_queue, chunk_buffer, chunk_index, files, contents,
                 stream_thread, collection_thread, delivered, dropped, blocks, listing, accepted, spawned,
                 lifevars>>

NextCapture ==
  \/ CaptureStart
  \/ \E frame \in FrameLens : AudioCallback(frame)
  \/ StreamFails
  \/ StreamLoopExits
  \/ CollectionGet
  \/ CollectionTimeout
  \/ CaptureStopFlag
  \/ CaptureStopPut
  \/ CaptureStopJoin

SpecCapture == Init /\ [][NextCapture]_vars

\* The engine's threads and a caller inside stop() keep running: the two
\* loops are daemon threads that the interpreter schedules, the put of
\* line 97 goes through as soon as the queue has room, and both joins are timed.
SpecCaptureLive ==
  /\ SpecCapture
  /\ WF_vars(CollectionGet)
  /\ WF_vars(CollectionTimeout)
  /\ WF_vars(StreamLoopExits)
  /\ WF_vars(CaptureStopPut)
  /\ WF_vars(CaptureStopJoin)

\* -------------------------------------------------------------------------
\* The engine under any sequence of start() and stop() calls by one caller.

\* mutant of CaptureStartAlready: the refused start() resets index and buffer
CaptureStartAlready_Resets ==
  /\ cpc \in {"started", "start_raised"}
  /\ is_recording
  /\ cpc' = "start_raised"
  /\ chunk_index' = 0
  /\ chunk_buffer' = <<>>
  /\ UNCHANGED <<is_recording, audio_queue, files, contents, stream_thread,
                 collection_thread, delivered, dropped, blocks, listing, accepted, spawned,
                 lifevars>>

\* start(), lines 71-72: RuntimeError while _is_recording is set
CaptureStartAlready ==
  /\ cpc \in {"started", "start_raised"}
  /\ is_recording
  /\ cpc' = "start_raised"
  /\ UNCHANGED <<is_recording, audio_queue, chunk_buffer, chunk_index, files, contents,
                 stream_thread, collection_thread, delivered, dropped, blocks, listing, accepted,
                 spawned, lifevars>>

\* start() on an engine that had a start() or stop() call before and is not
\* recording now (after stop(), or after the stream failed).  A start()
\* while a thread of the previous run is still alive is not followed.
CaptureStartAgain ==
  /\ cpc \in {"started", "start_raised", "stopped", "stopped_timeout"}
  /\ ~is_recording
  /\ stream_thread # "streaming"
  /\ collection_thread # "running"
  /\ is_recording' = TRUE
  /\ chunk_index' = 0
  /\ chunk_buffer' = <<>>
  /\ collection_thread' = "running"
  /\ stream_thread' = "streaming"
  /\ cpc' = "started"
  /\ UNCHANGED <<audio_queue, files, contents, delivered, dropped, blocks, listing, accepted, spawned,
                 lifevars>>

\* stop() on an engine that was never started or is already stopped: line 94
CaptureStopAgain ==
  /\ cpc \in {"constructed", "stopped", "stopped_timeout"}
  /\ is_recording' = FALSE
  /\ cpc' = "stop_put"
  /\ UNCHANGED <<audio_queue, chunk_buffer, chunk_index, files, contents, stream_thread,
                 collection_thread, delivered, dropped, blocks, listing, accepted, spawned,
                 lifevars>>

NextEngine ==
  \/ NextCapture
  \/ CaptureStartAlready
  \/ CaptureStartAgain
  \/ CaptureStopAgain

SpecEngine == Init /\ [][NextEngine]_vars

\* -------------------------------------------------------------------------
\* start() while a thread of the previous run is still alive.  start() tests
\* _is_recording only (line 71): the flag is already False when the stream
\* has just failed (the collection thread runs until its next empty read)
\* and when stop() returned from a join that timed out.  The threads of the
\* previous run are dropped from _stream_thread / _collection_thread and go
\* on running the same loops on the same queue, flag, buffer and index.
\* One such start() is followed per engine.
othervars == <<running, wvars, wpc, clockvars, mpc, sessvars, capvars,
               relayvars, histvars>>

CaptureStartOverlap ==
  /\ cpc \in {"started", "start_raised", "stopped", "stopped_timeout"}
  /\ ~is_recording
  /\ stream_thread = "streaming" \/ collection_thread = "running"
  /\ leftover = [collection |-> 0, stream |-> 0]
  /\ leftover' = [collection |-> IF collection_thread = "running" THEN 1 ELSE 0,
                  stream |-> IF stream_thread = "streaming" THEN 1 ELSE 0]
  /\ is_recording' = TRUE
  /\ chunk_index' = 0
  /\ chunk_buffer' = <<>>
  /\ collection_thread' = "running"
  /\ stream_thread' = "streaming"
  /\ cpc' = "started"
  /\ UNCHANGED <<audio_queue, files, contents, delivered, dropped, blocks,
                 listing, accepted, spawned, othervars>>

\* _audio_callback, called by the stream of the previous run
LeftoverAudioCallback(frame) ==
  /\ leftover.stream > 0
  /\ delivered < MaxFrames
  /\ ~(cpc = "stop_put" /\ Len(audio_queue) < QUEUE_MAXSIZE)
  /\ delivered' = delivered + 1
  /\ blocks' = blocks \cup {frame}
  /\ IF Len(audio_queue) < QUEUE_MAXSIZE
       THEN /\ audio_queue' = Append(audio_queue, frame)
            /\ accepted' = Append(accepted, frame)
            /\ UNCHANGED dropped
       ELSE /\ dropped' = dropped + 1
            /\ UNCHANGED <<audio_queue, accepted>>
  /\ UNCHANGED <<is_recording, chunk_buffer, chunk_index, files, contents,
                 stream_thread, collection_thread, cpc, spawned, listing,
                 lifevars>>

\* _stream_loop of the previous run: its stream fails, or it sees the flag
\* False
LeftoverStreamEnds ==
  /\ leftover.stream > 0
  /\ leftover' = [leftover EXCEPT !.stream = @ - 1]
  /\ is_recording' = FALSE
  /\ UNCHANGED <<audio_queue, chunk_buffer, chunk_index, files, contents,
                 stream_thread, collection_thread, cpc, delivered, dropped,
                 blocks, listing, accepted, spawned, othervars>>

\* _collection_loop of the previous run, one iteration with an item
LeftoverCollectionGet ==
  /\ leftover.collection > 0
  /\ audio_queue # <<>>
  /\ audio_queue' = Tail(audio_queue)
  /\ IF Head(audio_queue) = NoFrame
       THEN /\ SaveChunk(chunk_buffer)
            /\ leftover' = [leftover EXCEPT !.collection = @ - 1]
       ELSE /\ UNCHANGED leftover
            /\ LET buf == Append(chunk_buffer, Head(audio_queue))
               IN  IF SumSeq(buf) >= frames_per_chunk
                     THEN SaveChunk(buf)
                     ELSE /\ chunk_buffer' = buf
                          /\ UNCHANGED <<chunk_index, files, contents, spawned>>
  /\ UNCHANGED <<is_recording, stream_thread, collection_thread, cpc,
                 delivered, dropped, blocks, listing, accepted, othervars>>

\* _collection_loop of the previous run: an empty read with the flag False
LeftoverCollectionTimeout ==
  /\ leftover.collection > 0
  /\ audio_queue = <<>>
  /\ ~is_recording
  /\ leftover' = [leftover EXCEPT !.collection = @ - 1]
  /\ UNCHANGED <<is_recording, audio_queue, chunk_buffer, chunk_index, files,
                 contents, stream_thread, collection_thread, cpc, delivered,
                 dropped, blocks, listing, accepted, spawned, othervars>>

NextOverlap ==
  \/ NextCapture
  \/ CaptureStartOverlap
  \/ \E frame \in FrameLens : LeftoverAudioCallback(frame)
  \/ LeftoverStreamEnds
  \/ LeftoverCollectionGet
  \/ LeftoverCollectionTimeout

SpecOverlap == Init /\ [][NextOverlap]_vars

\* -------------------------------------------------------------------------
\* get_chunk_paths(): sorted(session_dir.glob("chunk_*.wav")).  A path is
\* represented by its chunk index and ordered by its file name, compared as
\* Python compares strings: character by character, by code point.

\* the minimum field width of the format chunk_{index:04d}.wav
PAD_WIDTH == 4

\* code points of '0' and of '.'
ORD_ZERO == 48
ORD_DOT == 46

RECURSIVE Digits(_)
Digits(n) == IF n < 10 THEN <<n>> ELSE Append(Digits(n \div 10), n % 10)

\* {index:04d}: the decimal digits, zero-filled on the left to PAD_WIDTH
Pad(d) ==
  IF Len(d) >= PAD_WIDTH THEN d
  ELSE [k \in 1..PAD_WIDTH |->
          IF k <= PAD_WIDTH - Len(d) THEN 0 ELSE d[k - (PAD_WIDTH - Len(d))]]

\* The part of the file name in which two chunk names can differ: the
\* digits and the '.' that follows them ("chunk_" and "wav" are common).
ChunkName(i) ==
  LET d == Pad(Digits(i))
  IN  [k \in 1..(Len(d) + 1) |->
         IF k <= Len(d) THEN ORD_ZERO + d[k] ELSE ORD_DOT]

\* str.__lt__
StrLess(a, b) ==
  LET m == Min(Len(a), Len(b))
      diff == {k \in 1..m : a[k] # b[k]}
  IN  IF diff = {} THEN Len(a) < Len(b)
      ELSE LET k == CHOOSE x \in diff : \A y \in diff : x <= y
           IN  a[k] < b[k]

PathLess(i, j) == StrLess(ChunkName(i), ChunkName(j))

\* the files of the session directory (indices 0 .. n-1, see SaveChunk),
\* sorted by name
SortedChunkPaths ==
  SortSeq([k \in 1..Cardinality(DOMAIN files) |-> k - 1], PathLess)

\* get_chunk_paths(), callable at any time from the owner's thread
GetChunkPaths ==
  /\ listing' = SortedChunkPaths
  /\ UNCHANGED <<is_recording, audio_queue, chunk_buffer, chunk_index, files, contents,
                 stream_thread, collection_thread, cpc, delivered, dropped,
                 blocks, spawned, accepted, lifevars>>

\* An engine stopped after a recording of n full chunks (the block counter
\* is at its bound).
LongRecorded(n) ==
  /\ is_recording = FALSE
  /\ audio_queue = <<>>
  /\ chunk_buffer = <<>>
  /\ chunk_index = n
  /\ files = [i \in 0..(n - 1) |-> frames_per_chunk]
  /\ stream_thread = "exited"
  /\ collection_thread = "exited"
  /\ cpc = "stopped"
  /\ delivered = MaxFrames
  /\ dropped = 0
  /\ blocks = {160000}
  /\ spawned = [k \in 1..n |-> k - 1]
  /\ listing = <<>>
  /\ accepted = [k \in 1..(3 * n) |-> 160000]
  /\ contents = [i \in 0..(n - 1) |-> <<160000, 160000, 160000>>]
  /\ leftover = [collection |-> 0, stream |-> 0]

\* A new engine, or one that has recorded for very long.
InitListing ==
  /\ InitWatcher
  /\ \/ InitEngine
     \/ \E n \in (MaxListed - 2)..MaxListed : LongRecorded(n)

NextListing ==
  \/ NextCapture
  \/ GetChunkPaths

SpecListing == InitListing /\ [][NextListing]_vars

\* =========================================================================
\* Properties
\* =========================================================================
\* A step that is one poll of run(): the watcher was sleeping, is still
\* running afterwards, and its clock, signal, state or position moved.
PollStep ==
  /\ wpc = "sleep"
  /\ running'
  /\ \/ <<state, since_entered, meeting, active_for>>'
          # <<state, since_entered, meeting, active_for>>
     \/ wpc' # wpc

\* `elapsed` of that poll reached the start grace
PollReachedStartGrace ==
  IF state' = state THEN since_entered' >= START_GRACE_SECONDS
                    ELSE prev_elapsed' >= START_GRACE_SECONDS

Recording == {o \in Owners : capturing[o]}

\* C1: at most one recording session is active at any time, under every
\* interleaving of the watcher's start-recording and the manual start.
C1_AtMostOneActiveSession == Cardinality(Recording) <= 1

\* C2: start-recording with the lock marker present creates no session,
\* starts no capture and no relay, leaves the marker, and skips the poll
\* cycle: the watcher stays in CONFIRMING, so that the next poll retries.
C2_LockedStartSkipsAndRetries ==
  [][ (PollStep /\ state = "CONFIRMING" /\ meeting'.active
         /\ PollReachedStartGrace /\ lock # None)
      => (/\ state' = "CONFIRMING"
          /\ UNCHANGED <<session, db, next_id, lock, capturing, worker>>) ]_vars

\* C3: RECORDING -> COOLING_DOWN (inactive poll) and COOLING_DOWN -> RECORDING
\* (active poll) change the state only: same session, no session created,
\* capture, relay worker, relay queue, offset and lock marker untouched.
C3_FlickerKeepsSession ==
  [][ (PollStep /\ \/ state = "RECORDING" /\ ~meeting'.active
                   \/ state = "COOLING_DOWN" /\ meeting'.active)
      => (/\ state' = IF state = "RECORDING" THEN "COOLING_DOWN"
                                              ELSE "RECORDING"
          /\ UNCHANGED <<session, db, next_id, lock, capvars, relayvars,
                         histvars, wpc>>) ]_vars

C3_Witness ==
  /\ state = "RECORDING"
  /\ prev_state = "COOLING_DOWN"
  /\ session["watcher"] = 1
  /\ capturing["watcher"]
  /\ worker["watcher"] = "alive"
  /\ lock = 1
  /\ transcript_offset["watcher"] = chunk_duration
  /\ db[1] = "recording"

\* C4: a poll in COOLING_DOWN with the signal inactive and elapsed >=
\* stop-grace runs stop-recording, then post-processing, and ends in IDLE
\* with no session held; each session is stopped once and processed once.
CountedFor(counter, sid) ==
  \A s \in SessionIds :
    counter'[s] = counter[s] + (IF s = sid THEN 1 ELSE 0)

C5_RecordingEnteredByStartingSession ==
  [][ (state = "CONFIRMING" /\ state' = "RECORDING")
      => (/\ wpc = "start_lock"
          /\ session'["watcher"] # None
          /\ capturing'["watcher"]) ]_vars

\* C6: in CONFIRMING a poll with an inactive signal returns to IDLE whatever
\* the elapsed time, and creates no session, lock marker, capture or relay.
C6_InactiveConfirmingToIdle ==
  [][ (PollStep /\ state = "CONFIRMING" /\ ~meeting'.active)
      => (/\ state' = "IDLE"
          /\ UNCHANGED <<session, db, next_id, lock, capvars, relayvars,
                         histvars, wpc>>) ]_vars

C6_Witness ==
  /\ state = "IDLE"
  /\ prev_state = "CONFIRMING"
  /\ prev_elapsed >= START_GRACE_SECONDS
  /\ ~meeting.active
  /\ next_id = 1
  /\ lock = None
  /\ mpc = "none"

\* C7: the watcher creates a session only in CONFIRMING, after the signal
\* has been active at the poll that entered CONFIRMING and at every poll
\* since, for at least start-grace; RECORDING is never entered from IDLE.
C7_NoStartWithoutConfirmation ==
  /\ [][ (session'["watcher"] # session["watcher"]
            /\ session'["watcher"] # None)
         => (/\ state = "CONFIRMING"
             /\ since_entered >= START_GRACE_SECONDS
             /\ active_for >= START_GRACE_SECONDS) ]_vars
  /\ [](state = "CONFIRMING"
          => active_for = Min(since_entered, START_GRACE_SECONDS))
  /\ [](state = "RECORDING" => prev_state # "IDLE")

C7_Witness ==
  /\ wpc = "start_lock"
  /\ state = "CONFIRMING"
  /\ session["watcher"] # None
  /\ active_for >= START_GRACE_SECONDS

\* C8: in IDLE an active poll records the detected platform and enters
\* CONFIRMING without creating a session; an inactive poll changes nothing.
C8_IdlePoll ==
  [][ (PollStep /\ state = "IDLE")
      => IF meeting'.active
           THEN /\ state' = "CONFIRMING"
                /\ last_platform' = meeting'.platform
                /\ UNCHANGED <<sessvars, capvars, relayvars, histvars, wpc>>
           ELSE /\ state' = "IDLE"
                /\ UNCHANGED <<last_platform, prev_state, prev_elapsed,
                               sessvars, capvars, relayvars, histvars, wpc>>
    ]_vars

C8_Witness ==
  /\ state = "CONFIRMING"
  /\ prev_state = "IDLE"
  /\ meeting = [active |-> TRUE, platform |-> "Microsoft Teams"]
  /\ last_platform = "Microsoft Teams"
  /\ session["watcher"] = None
  /\ next_id = 1

\* C9: the chunk indices on disk are exactly 0 .. n-1 for some n, whatever
\* frames were dropped on a full queue.
C9_ChunkIndicesContiguous ==
  DOMAIN files = 0 .. (Cardinality(DOMAIN files) - 1)

C9_Witness ==
  /\ dropped > 0
  /\ Cardinality(DOMAIN files) >= 2
  /\ collection_thread = "exited"

\* C10: every transcript record the relay saved for chunk i starts at
\* i * chunk_duration and ends at (i + 1) * chunk_duration.
C10_OffsetsFollowChunkIndex ==
  \A r \in saved :
    /\ r.started_at_offset = r.chunk_index * chunk_duration
    /\ r.ended_at_offset = (r.chunk_index + 1) * chunk_duration

\* A step in which o's relay worker dequeues the head of its queue
RelayDequeues(o) ==
  /\ worker[o] = "alive"
  /\ transcription_queue[o] # <<>>
  /\ transcription_queue'[o] = Tail(transcription_queue[o])
  /\ wpc' = wpc
  /\ mpc' = mpc

\* ... and that head is a chunk path
RelayDequeuesChunk(o) ==
  RelayDequeues(o) /\ Head(transcription_queue[o]) # Sentinel

QueuedChunks(o) ==
  {transcription_queue[o][k] : k \in 1..Len(transcription_queue[o])}
    \ {Sentinel}

\* C11: each chunk the relay consumer dequeues advances the running offset
\* by exactly chunk_duration, whether transcription returned text, returned
\* nothing or raised.
C11_OffsetAdvancesOnEveryOutcome ==
  [][ \A o \in Owners :
        RelayDequeuesChunk(o)
          => transcript_offset'[o] = transcript_offset[o] + chunk_duration
    ]_vars

\* C12: when the relay consumer dequeues chunk i of a session, no chunk j < i
\* of that session is still waiting, in the queue or in a callback thread:
\* chunks are transcribed in chunk order.
C12_ChunksInChunkOrder ==
  [][ \A o \in Owners :
        RelayDequeuesChunk(o)
          => LET p == Head(transcription_queue[o])
             IN  \A j \in 0..(p[2] - 1) :
                   /\ ChunkPath(p[1], j) \notin callbacks[o]
                   /\ ChunkPath(p[1], j) \notin QueuedChunks(o)
    ]_vars

\* C13: at the step that marks a session stopped, no chunk path of that
\* session is waiting in a callback thread or in the relay queue: each one
\* was dequeued ahead of the terminal marker.
C13_NothingLeftWhenMarkedStopped ==
  [][ \A o \in Owners :
        (/\ session[o] # None
         /\ db[session[o]] = "recording"
         /\ db'[session[o]] # "recording")
        => (callbacks[o] = {} /\ QueuedChunks(o) = {}) ]_vars

\* Steps of an owner's stop: the terminal marker is appended to its queue;
\* its session's row leaves the status recording; it waits in the join.
EnqueuesMarker(o) ==
  /\ Len(transcription_queue'[o]) = Len(transcription_queue[o]) + 1
  /\ transcription_queue'[o][Len(transcription_queue'[o])] = Sentinel

MarksStopped(o) ==
  /\ session[o] # None
  /\ db[session[o]] = "recording"
  /\ db'[session[o]] # "recording"

InJoin(o) ==
  IF o = "watcher" THEN wpc \in {"stop_join", "sig_join"} ELSE mpc = "join"

\* C14 as amended: capture.stop() has returned when the terminal marker is
\* enqueued, and the session is still recording and the lock marker still
\* present then; the session is marked stopped only from the join, with the
\* marker enqueued earlier; the lock marker is released in the step that
\* marks the session, not before; a session marked stopped has no capture
\* whose stop() has not returned.
C14_StopOrder ==
  /\ [][ \A o \in Owners :
           /\ EnqueuesMarker(o)
                => (~capturing'[o] /\ UNCHANGED <<db, lock>> /\ ~InJoin(o))
           /\ MarksStopped(o)
                => (/\ InJoin(o)
                    /\ ~capturing[o]
                    /\ worker[o] = "alive"
                         => Sentinel \in {transcription_queue[o][k] :
                                 k \in 1..Len(transcription_queue[o])})
           /\ (InJoin(o) /\ ~InJoin(o)')
                => (/\ lock' = None
                    /\ session[o] # None => db'[session[o]] # "recording")
       ]_vars
  /\ [][ (lock # None /\ lock' = None) => \E o \in Owners : InJoin(o) ]_vars
  /\ [](\A o \in Owners :
          (session[o] # None /\ db[session[o]] = "stopped") => ~capturing[o])

C14_Witness ==
  /\ state = "PROCESSING"
  /\ session["watcher"] = 1
  /\ db[1] = "stopped"
  /\ lock = None
  /\ ~capturing["watcher"]
  /\ worker["watcher"] = "none"
  /\ chunks_written["watcher"] > 0
  /\ Len(handed) = chunks_written["watcher"]

\* C14 as stated: a session is never marked stopped while its capture can
\* still produce a chunk.
C14_Original ==
  [][ \A o \in Owners :
        MarksStopped(o) => (~capturing[o] /\ ~collecting[o]) ]_vars

C16_MarkerEndsRelay ==
  [][ \A o \in Owners :
        /\ (RelayDequeues(o) /\ Head(transcription_queue[o]) = Sentinel)
             => (/\ worker'[o] = "exited"
                 /\ UNCHANGED <<transcript_offset, relaylog>>)
        /\ (/\ session[o] # None
            /\ session'[o] = session[o]
            /\ \/ worker[o] = "exited"
               \/ worker[o] = "none" /\ db[session[o]] # "recording")
             => (/\ transcript_offset'[o] = transcript_offset[o]
                 /\ UNCHANGED relaylog
                 /\ Len(transcription_queue'[o]) >= Len(transcription_queue[o])
                 /\ worker'[o] # "alive")
    ]_vars

C16_Witness ==
  \E o \in Owners :
    /\ session[o] = 1
    /\ worker[o] = "exited"
    /\ QueuedChunks(o) # {}
    /\ transcript_offset[o] = chunk_duration
    /\ Len(handed) = 1

C18_NeverProcessingAtPoll ==
  wpc = "sleep" => state # "PROCESSING"

\* -------------------------------------------------------------------------
\* C19: an exception inside a tick leaves the loop polling and the watcher
\* able to start and stop later sessions: no step of a tick ends the loop
\* (only the stop signal, taken between ticks, does), and a poll that sees a
\* meeting active leaves the watcher confirming or recording it.
C19_LoopSurvivesAndStillRecords ==
  /\ [][(running /\ ~running') =>
          (wpc = "sleep" /\ wpc' \in {"sleep", "sig_join"})]_vars
  /\ [][(wpc = "sleep" /\ running /\ running'
          /\ meeting' # meeting /\ meeting'.active) =>
          state' \in {"CONFIRMING", "RECORDING"}]_vars

\* The watcher's _stop_recording returns: the step that leaves its join.
StopRecordingCompletes ==
  /\ wpc \in {"stop_join", "sig_join"}
  /\ wpc' \notin {"stop_join", "sig_join"}

MarkerQueued(o) ==
  \E k \in 1..Len(transcription_queue[o]) :
    transcription_queue[o][k] = Sentinel

\* -------------------------------------------------------------------------
\* C20 as amended: when the watcher's stop-recording completes, capture's
\* stop() has returned, the terminal marker has been enqueued and the relay
\* consumer joined with a bounded wait (a consumer that is still running has
\* the marker in its queue), the session is marked stopped, and the lock
\* marker is absent.
C20_StopRecordingPostcondition ==
  [][StopRecordingCompletes =>
       /\ ~capturing'["watcher"]
       /\ worker'["watcher"] = "alive" => MarkerQueued("watcher")'
       /\ worker'["watcher"] # "exited"
       /\ session'["watcher"] = session["watcher"]
       /\ session["watcher"] # None => db'[session["watcher"]] = "stopped"
       /\ lock' = None]_vars

\* Stop-recording has completed for session 1 after its join timed out: the
\* consumer is still working through its queue, marker included.
C20_Witness ==
  /\ state = "PROCESSING"
  /\ wpc = "process"
  /\ session["watcher"] = 1
  /\ db[1] = "stopped"
  /\ lock = None
  /\ ~capturing["watcher"]
  /\ worker["watcher"] = "alive"
  /\ MarkerQueued("watcher")
  /\ Len(transcription_queue["watcher"]) > 1

\* C20 as stated: on completion the relay consumer has received the
\* terminal marker and ended.
C20_Original ==
  [][StopRecordingCompletes => worker'["watcher"] # "alive"]_vars

\* -------------------------------------------------------------------------
\* C21: at every poll boundary (the loop sleeping between ticks) the watcher
\* owns no session, capture or relay while in IDLE or CONFIRMING, and in
\* RECORDING or COOLING_DOWN it owns one session whose capture is running,
\* whose relay consumer is alive and whose id the lock marker holds.
C21_OwnershipMatchesState ==
  (running /\ wpc = "sleep") =>
    /\ state \in {"IDLE", "CONFIRMING"} =>
          /\ session["watcher"] = None
          /\ ~capturing["watcher"]
          /\ worker["watcher"] # "alive"
    /\ state \in {"RECORDING", "COOLING_DOWN"} =>
          /\ session["watcher"] # None
          /\ capturing["watcher"]
          /\ worker["watcher"] = "alive"
          /\ lock = session["watcher"]

\* -------------------------------------------------------------------------
\* C22: the lock marker is claimed before any session state is written: a
\* step that creates a session record is taken with the lock marker
\* already holding that session's id.
C22_LockClaimedBeforeSessionRecord ==
  [][\A s \in SessionIds :
       (db[s] = "absent" /\ db'[s] # "absent") => lock = s]_vars

\* A call of the audio callback: the step that counts a delivered block.
CallbackReturns ==
  delivered' = delivered + 1

\* -------------------------------------------------------------------------
\* C23: a callback that finds the capture queue full returns in that same
\* step, dropping only the block it was given: the queue is as before in
\* content and order, and nothing else of the engine changes.  A callback
\* that finds room appends its block at the tail.  The queue never holds
\* more than its capacity.
C23_FullQueueDropsNewest ==
  /\ [][(CallbackReturns /\ Len(audio_queue) = QUEUE_MAXSIZE) =>
          /\ audio_queue' = audio_queue
          /\ dropped' = dropped + 1
          /\ UNCHANGED <<is_recording, chunk_buffer, chunk_index, files,
                         stream_thread, collection_thread, cpc, spawned>>]_vars
  /\ [][(CallbackReturns /\ Len(audio_queue) < QUEUE_MAXSIZE) =>
          /\ Len(audio_queue') = Len(audio_queue) + 1
          /\ SubSeq(audio_queue', 1, Len(audio_queue)) = audio_queue
          /\ audio_queue'[Len(audio_queue')] \in FrameLens
          /\ dropped' = dropped]_vars
  /\ [](Len(audio_queue) <= QUEUE_MAXSIZE)

\* A block was dropped at a queue holding two different blocks, which are
\* still there in their order.
C23_Witness ==
  /\ dropped > 0
  /\ Len(audio_queue) = QUEUE_MAXSIZE
  /\ audio_queue[1] # audio_queue[2]
  /\ NoFrame \notin {audio_queue[k] : k \in 1..Len(audio_queue)}
  /\ stream_thread = "streaming"

\* -------------------------------------------------------------------------
\* C24: a queue-full drop leaves the collection thread as it was; from a
\* full queue the running collection thread dequeues again; after a drop a
\* block that finds room is accepted; and a stop() called after a drop gets
\* its sentinel into the queue and returns from its joins.
C24_CollectionSurvivesQueueFull ==
  /\ [][(CallbackReturns /\ dropped' > dropped) =>
          UNCHANGED <<collection_thread, chunk_buffer, chunk_index>>]_vars
  /\ [][(dropped > 0 /\ CallbackReturns
          /\ Len(audio_queue) < QUEUE_MAXSIZE) =>
          Len(audio_queue') = Len(audio_queue) + 1]_vars
  /\ (dropped > 0 /\ collection_thread = "running"
        /\ Len(audio_queue) = QUEUE_MAXSIZE)
       ~> (Len(audio_queue) < QUEUE_MAXSIZE)
  /\ (dropped > 0 /\ cpc \in {"stop_put", "stop_join"})
       ~> (cpc \in {"stopped", "stopped_timeout"})

\* After a drop the engine went on to write chunks, one of them holding a
\* block accepted after the drop, and stop() has returned with both threads
\* ended.
C24_Witness ==
  /\ dropped > 0
  /\ delivered > dropped + QUEUE_MAXSIZE
  /\ cpc = "stopped"
  /\ collection_thread = "exited"
  /\ files # <<>>
  /\ chunk_buffer = <<>>
  /\ audio_queue = <<>>

\* -------------------------------------------------------------------------
\* C25: once stop() has returned with both joins completed (both threads
\* ended), the chunk buffer is empty: every block the collection thread
\* dequeued is in a chunk file.
C25_StopFlushesPartialBuffer ==
  cpc = "stopped" => chunk_buffer = <<>>

\* Samples the collection thread has consumed: those in the chunk files and
\* those in the buffer.
RECURSIVE SumFiles(_)
SumFiles(I) ==
  IF I = {} THEN 0
  ELSE LET i == CHOOSE x \in I : TRUE IN files[i] + SumFiles(I \ {i})

Consumed == SumFiles(DOMAIN files) + SumSeq(chunk_buffer)

\* All blocks delivered so far have one size, which divides the chunk size.
UniformBlocks ==
  /\ Cardinality(blocks) <= 1
  /\ \A b \in blocks : frames_per_chunk % b = 0

\* stop() has returned and the collection thread has ended.
StopReturned ==
  /\ cpc \in {"stopped", "stopped_timeout"}
  /\ collection_thread = "exited"

\* -------------------------------------------------------------------------
\* C26: with blocks of one size dividing T = frames_per_chunk, after S
\* consumed samples the running collection thread has written
\* floor(S / T) chunk files and holds S mod T samples in the buffer, which
\* stays below T; once stop() has returned and the thread has ended, the
\* remainder is in one more, partial, chunk if it was not zero, and no
\* further chunk exists if it was.
C26_ChunkCountFollowsSamples ==
  UniformBlocks =>
    /\ SumSeq(chunk_buffer) < frames_per_chunk
    /\ collection_thread = "running" =>
          /\ Cardinality(DOMAIN files) = Consumed \div frames_per_chunk
          /\ SumSeq(chunk_buffer) = Consumed % frames_per_chunk
    /\ StopReturned =>
          /\ chunk_buffer = <<>>
          /\ Cardinality(DOMAIN files) =
                (Consumed + frames_per_chunk - 1) \div frames_per_chunk
          /\ \A i \in DOMAIN files :
                i < Consumed \div frames_per_chunk => files[i] = frames_per_chunk

\* The part of C26 about the running collection thread alone.
C26_WhileCollecting ==
  (UniformBlocks /\ collection_thread = "running") =>
    /\ SumSeq(chunk_buffer) < frames_per_chunk
    /\ Cardinality(DOMAIN files) = Consumed \div frames_per_chunk
    /\ SumSeq(chunk_buffer) = Consumed % frames_per_chunk

\* A chunk file is written: _save_chunk got past line 178 (each such step
\* spawns one callback thread).
ChunkWritten ==
  spawned' # spawned

\* -------------------------------------------------------------------------
\* C27: across any sequence of start() and stop() on one engine, a chunk
\* index that is on disk is never written again.
C27_NoChunkRewritten ==
  [][ChunkWritten => chunk_index \notin DOMAIN files]_vars

\* -------------------------------------------------------------------------
\* C28: start() on an engine that is recording raises and changes nothing:
\* chunk index, chunk buffer, queue, threads, files and the flag are as
\* before the call; and while the engine is recording no step puts the
\* index back or starts a thread.
C28_StartWhileRecordingChangesNothing ==
  /\ [][(cpc = "started" /\ cpc' = "start_raised") =>
          /\ is_recording
          /\ UNCHANGED <<is_recording, chunk_index, chunk_buffer, audio_queue,
                         files, stream_thread, collection_thread,
                         spawned>>]_vars
  /\ [][(is_recording /\ is_recording') =>
          /\ chunk_index' >= chunk_index
          /\ stream_thread' = "streaming" => stream_thread = "streaming"
          /\ collection_thread' = "running" =>
                collection_thread = "running"]_vars

\* start() was refused on an engine with a chunk written and blocks buffered.
C28_Witness ==
  /\ cpc = "start_raised"
  /\ is_recording
  /\ chunk_index > 0
  /\ chunk_buffer # <<>>
  /\ audio_queue # <<>>

\* -------------------------------------------------------------------------
\* C29: stop() never blocks for ever: whenever its put of the sentinel is
\* waiting on a full queue, the collection thread is there to make room;
\* and once stop() has returned, capture is not recording.
C29_StopAlwaysReturns ==
  /\ (cpc = "stop_put" /\ Len(audio_queue) = QUEUE_MAXSIZE) =>
        collection_thread = "running"
  /\ cpc \in {"stopped", "stopped_timeout"} => ~is_recording

\* The collection thread of owner o persists a chunk.
PersistsChunk(o) ==
  chunks_written'[o] = chunks_written[o] + 1

\* Occurrences of path p in the relay queue of owner o.
QueuedTimes(o, p) ==
  Cardinality({k \in 1..Len(transcription_queue[o]) :
                 transcription_queue[o][k] = p})

\* -------------------------------------------------------------------------
\* C30: the step that persists a chunk starts one callback thread, for that
\* chunk's path, and does not itself deliver the path to the callback's
\* target; each callback thread delivers its own path once, in a step of its
\* own; the collection thread persists further chunks with callbacks still
\* pending, and no path is delivered twice.
C30_OneCallbackThreadPerChunk ==
  /\ [][\A o \in Owners :
          PersistsChunk(o) =>
            /\ ChunkPath(session[o], chunks_written[o]) \notin callbacks[o]
            /\ callbacks'[o] = callbacks[o]
                  \cup {ChunkPath(session[o], chunks_written[o])}
            /\ transcription_queue' = transcription_queue]_vars
  /\ [][\A o \in Owners :
          (callbacks'[o] # callbacks[o] /\ ~PersistsChunk(o)
             /\ mpc' = mpc /\ wpc' = wpc) =>
            \E p \in callbacks[o] :
              /\ callbacks'[o] = callbacks[o] \ {p}
              /\ transcription_queue'[o] = Append(transcription_queue[o], p)
              /\ chunks_written' = chunks_written]_vars
  /\ [](\A o \in Owners : \A p \in callbacks[o] : QueuedTimes(o, p) = 0)
  /\ [](\A o \in Owners : \A k \in 1..Len(transcription_queue[o]) :
          transcription_queue[o][k] # Sentinel =>
            QueuedTimes(o, transcription_queue[o][k]) = 1)

\* Two chunks persisted with both callback threads still pending: the
\* collection thread went on without waiting for the first callback.
C30_Witness ==
  \E o \in Owners :
    /\ chunks_written[o] = 2
    /\ Cardinality(callbacks[o]) = 2
    /\ transcription_queue[o] = <<>>

\* The input stream fails: the stream thread ends while capture is recording.
StreamFailure ==
  /\ is_recording
  /\ stream_thread = "streaming"
  /\ stream_thread' = "exited"

\* -------------------------------------------------------------------------
\* C31: a failure of the input stream clears the recording flag inside the
\* stream thread and touches nothing else: the caller is where it was and
\* the collection thread is still running; with the flag cleared and the
\* stream gone, the collection thread ends.
C31_StreamFailureIsAbsorbed ==
  /\ [][StreamFailure =>
          /\ ~is_recording'
          /\ UNCHANGED <<cpc, collection_thread, audio_queue, chunk_buffer,
                         chunk_index, files>>]_vars
  /\ (stream_thread = "exited" /\ collection_thread = "running")
       ~> (collection_thread = "exited")

\* The stream failed with no stop() called, and the collection thread has
\* ended by itself after taking the blocks that were queued.
C31_Witness ==
  /\ cpc = "started"
  /\ ~is_recording
  /\ stream_thread = "exited"
  /\ collection_thread = "exited"
  /\ audio_queue = <<>>
  /\ delivered > 0

\* -------------------------------------------------------------------------
\* C32: get_chunk_paths() returns the persisted chunks in increasing index
\* order, whatever their number (the list of the latest call is increasing),
\* and a call changes nothing of the capture engine.
C32_ListingInIndexOrder ==
  \A k \in 1..Len(listing) : listing[k] = k - 1

\* The second half of C32: a call changes nothing of the capture engine.
C32_CallChangesNothing ==
  [][listing' # listing =>
       UNCHANGED <<is_recording, audio_queue, chunk_buffer, chunk_index,
                   files, stream_thread, collection_thread, cpc>>]_vars

\* The first half of C32 for a recording of a few chunks: the list is in
\* index order, also when taken while the engine records.
C32_ShortListingInOrder ==
  (listing # <<>> /\ Len(listing) < 1000) =>
     \A k \in 1..Len(listing) : listing[k] = k - 1

\* -------------------------------------------------------------------------
\* C33: the state machine stops a session only from COOLING_DOWN, at a poll
\* that ends at least stop-grace of polls which all saw the signal inactive
\* (quiet_for), and every entry into COOLING_DOWN starts from zero: the
\* state timer and the inactive period both restart.
StateMachineStops == wpc = "sleep" /\ wpc' = "stop_join"

C33_StopOnlyAfterContinuousGrace ==
  /\ [][StateMachineStops =>
          /\ state = "COOLING_DOWN"
          /\ ~meeting'.active
          /\ quiet_for' >= STOP_GRACE_SECONDS]_vars
  /\ [][(state # "COOLING_DOWN" /\ state' = "COOLING_DOWN") =>
          /\ since_entered' = 0
          /\ quiet_for' = 0]_vars
  /\ [](state = "COOLING_DOWN" => quiet_for >= 0)

\* a session stopped by the state machine, after a flicker earlier on
C33_Witness ==
  /\ wpc = "stop_join"
  /\ state = "COOLING_DOWN"
  /\ quiet_for >= STOP_GRACE_SECONDS
  /\ session["watcher"] # None
  /\ stop_count[session["watcher"]] = 1

\* -------------------------------------------------------------------------
\* C34: the watcher removes the lock marker only if it wrote it: a step of
\* the watcher's stop-recording that deletes the marker deletes the marker
\* of the watcher's own session, never the one of another session.
WatcherRemovesLock ==
  /\ wpc \in {"stop_join", "sig_join"}
  /\ wpc' # wpc
  /\ lock # None
  /\ lock' = None

C34_WatcherRemovesOwnLockOnly ==
  [][WatcherRemovesLock => lock = session["watcher"]]_vars

\* -------------------------------------------------------------------------
\* C35: once the watcher's stop() has returned (running is False and no
\* stop-recording is under way), no capture of the watcher runs, no session
\* of the watcher has status recording, and the watcher's lock marker is
\* gone.
WatcherStopReturned == ~running /\ wpc = "sleep"

C35_StopLeavesNothingBehind ==
  WatcherStopReturned =>
    /\ ~capturing["watcher"]
    /\ session["watcher"] # None =>
          /\ db[session["watcher"]] # "recording"
          /\ lock # session["watcher"]

\* C35 for a stop() called in COOLING_DOWN only
C35_StopInCoolingDown ==
  (WatcherStopReturned /\ state = "COOLING_DOWN") =>
    /\ ~capturing["watcher"]
    /\ lock = None

\* -------------------------------------------------------------------------
\* C36: a start-recording that fails after the lock marker was written does
\* not leave the marker behind: whenever neither starter is inside a start
\* or a stop, a marker on disk belongs to a session whose capture runs.
AtRest == wpc = "sleep" /\ mpc \in {"none", "recording"}

C36_NoStaleLockAfterFailedStart ==
  (AtRest /\ lock # None) =>
    \E o \in Owners : session[o] = lock /\ capturing[o]

\* C36 for the watcher alone: a session of the watcher with status recording
\* and the lock has its capture running.
C36_WatcherNoStaleLock ==
  (AtRest /\ session["watcher"] # None /\ lock = session["watcher"]
     /\ db[session["watcher"]] = "recording") => capturing["watcher"]

\* -------------------------------------------------------------------------
\* C37: a transcript record is stored under the id of the session whose
\* capture produced the chunk: the record written by a relay step carries
\* the session id and the index of the chunk path that step dequeued.
C37_RecordsStayWithTheirSession ==
  [][\A r \in saved' \ saved :
       \E o \in Owners :
         /\ transcription_queue[o] # <<>>
         /\ Head(transcription_queue[o]) = ChunkPath(r.session_id, r.chunk_index)]_vars

\* The state SpecHandover starts from is one the running session reaches.
C37_HandoverStart ==
  /\ state = "PROCESSING"
  /\ wpc = "process"
  /\ session["watcher"] = 1
  /\ ~capturing["watcher"]
  /\ ~collecting["watcher"]
  /\ chunks_written["watcher"] = 1
  /\ callbacks["watcher"] = {}
  /\ worker["watcher"] = "alive"
  /\ transcription_queue["watcher"] = <<ChunkPath(1, 0), Sentinel>>
  /\ lock = None
  /\ db[1] = "stopped"
  /\ saved = {}
  /\ handed = <<>>
  /\ quiet_for = STOP_GRACE_SECONDS
  /\ stop_count[1] = 1

\* -------------------------------------------------------------------------
\* C38: while the collection thread runs, the frames accepted by the audio
\* callback are, in order and each once, the frames of the chunk files in
\* index order, then those of the chunk buffer, then those still queued.
RECURSIVE Persisted(_)
Persisted(n) ==
  IF n = 0 THEN <<>>
  ELSE Persisted(n - 1) \o (IF (n - 1) \in DOMAIN contents
                               THEN contents[n - 1] ELSE <<>>)

QueuedFrames == SelectSeq(audio_queue, LAMBDA f : f # NoFrame)

FramesConserved ==
  accepted = Persisted(Cardinality(DOMAIN contents)) \o chunk_buffer
               \o QueuedFrames

C38_AcceptedFramesConserved ==
  collection_thread = "running" => FramesConserved

\* -------------------------------------------------------------------------
\* C39: an engine that has written a chunk in an earlier run and is started
\* again collects normally: before it has written a chunk of its own, the
\* new collection thread ends only once the recording has been ended (stop()
\* or a stream failure cleared the flag), never on a sentinel the earlier
\* run left in the queue.
CollectionThreadEnds ==
  collection_thread = "running" /\ collection_thread' = "exited"

C39_RestartCollectsNormally ==
  [][(chunk_index = 0 /\ contents # <<>> /\ CollectionThreadEnds)
       => ~is_recording]_vars

\* -------------------------------------------------------------------------
\* C40: at most one collection thread and at most one stream thread of an
\* engine are alive at any time (so the chunk buffer and the chunk index
\* have a single writer).
CollectionThreadsAlive ==
  leftover.collection + (IF collection_thread = "running" THEN 1 ELSE 0)

StreamThreadsAlive ==
  leftover.stream + (IF stream_thread = "streaming" THEN 1 ELSE 0)

C40_OneThreadOfEachKind ==
  CollectionThreadsAlive <= 1 /\ StreamThreadsAlive <= 1

====
